---- MODULE Spec2Model ----
(***************************************************************************)
(* The mass-spring-damper simulation of springs: Mass, Spring, System, the *)
(* grid builder and the driving loop of main().                            *)
(*                                                                         *)
(* Arrays with a count (masses/mass_count, springs/spring_count,           *)
(* forces/force_count) are sequences holding the first `count` entries:    *)
(* the code never reads an entry at or beyond the count.  A C index i is   *)
(* element i+1 of the sequence.  A Mass* is the index of the mass in       *)
(* system->masses (add_spring only ever stores &system->masses[m]).        *)
(*                                                                         *)
(* Numbers: a float is modelled at reduced width.  A value v is the        *)
(* integer v*Q; every float operation rounds its exact result to nearest,  *)
(* ties to even, sign-symmetric, to MantissaBits significant bits, as      *)
(* IEEE-754 binary32 does with 24.                                         *)
(***************************************************************************)
EXTENDS Integers, Sequences, FiniteSets, TLC

\* ---------------------------------------------------------------- bounds
\* binary digits after the point of the modelled float
FracBits == 6
\* significant bits of the modelled float (24 in binary32)
MantissaBits == 12
\* #define FORCES_CAPACITY 64, scaled down
FORCES_CAPACITY == 10
\* #define SYSTEM_CAPACITY 8096, scaled down
SYSTEM_CAPACITY == 12
\* #define DEFAULT_GRID_ROWS 20 / DEFAULT_GRID_COLS 20, scaled down
DEFAULT_GRID_ROWS == 3
DEFAULT_GRID_COLS == 3
\* rows and cols given to system_init_grid range over 0..MaxDim
MaxDim == 4
\* mass indices given to system_add_spring and to mass_force_append range over
\* 0..MaxIndex
MaxIndex == 2
\* calls made on a System that starts empty
MaxOps == 3
\* calls made on a System that starts as the default grid
MaxSteps == 4
\* frames of the loop of main()
MaxFrames == 3

\* ------------------------------------------------------ program constants
GRAVITY_Y == 98
WIND_STRENGTH == 10
DEFAULT_GRID_SIZE == 25
DEFAULT_GRID_ORIGIN_XY == 10
DEFAULT_GRID_MASS == 1
DEFAULT_GRID_STRENGTH == 1000
DEFAULT_GRID_DAMPENING == 1
TIME_SCALE == 1

\* ------------------------------------------------------------ arithmetic
Q == 2 ^ FracBits

Abs(n) == IF n < 0 THEN -n ELSE n

\* n/d for d > 0, rounded to nearest, ties to even; RoundDiv(-n, d) = -RoundDiv(n, d)
RoundDivNat(n, d) ==
  LET q == n \div d
      r == n % d
  IN  IF 2 * r > d \/ (2 * r = d /\ q % 2 = 1) THEN q + 1 ELSE q

RoundDiv(n, d) == IF n < 0 THEN -RoundDivNat(-n, d) ELSE RoundDivNat(n, d)

RECURSIVE Ulp(_)
Ulp(a) == IF a < 2 ^ MantissaBits THEN 1 ELSE 2 * Ulp(a \div 2)

\* the float nearest to n
Fl(n) == LET u == Ulp(Abs(n)) IN RoundDiv(n, u) * u

\* the product and the quotient of two values, on the grid of step 1/Q
FMul(a, b) == RoundDiv(a * b, Q)
FDiv(a, b) == RoundDiv(a * Q, b)

RECURSIVE ISqrtFloor(_)
ISqrtFloor(n) ==
  IF n < 2 THEN n
  ELSE LET s == 2 * ISqrtFloor(n \div 4)
       IN  IF (s + 1) * (s + 1) <= n THEN s + 1 ELSE s

\* sqrt(n) rounded to nearest
ISqrt(n) == LET s == ISqrtFloor(n) IN IF n - s * s > s THEN s + 1 ELSE s

\* ------------------------------------------------------- raymath Vector2
Vector2Zero == <<0, 0>>

Vector2Add(v1, v2) == <<Fl(v1[1] + v2[1]), Fl(v1[2] + v2[2])>>

Vector2Subtract(v1, v2) == <<Fl(v1[1] - v2[1]), Fl(v1[2] - v2[2])>>

\* the scale is a float parameter: a double argument is converted on the call
Vector2Scale(v, scale) ==
  <<Fl(FMul(v[1], Fl(scale))), Fl(FMul(v[2], Fl(scale)))>>

Vector2Length(v) == Fl(ISqrt(v[1] * v[1] + v[2] * v[2]))

Vector2DotProduct(v1, v2) == Fl(FMul(v1[1], v2[1]) + FMul(v1[2], v2[2]))

\* a zero-length vector is returned unchanged (raymath guards length > 0)
Vector2Normalize(v) ==
  LET length == Vector2Length(v)
  IN  IF length > 0
      THEN <<Fl(FDiv(v[1], length)), Fl(FDiv(v[2], length))>>
      ELSE Vector2Zero

GRAVITATIONAL_ACCELERATION == <<0, GRAVITY_Y * Q>>

\* ------------------------------------------------------------------ Mass
\* Mass m = {0}
ZeroMass ==
  [position |-> Vector2Zero, velocity |-> Vector2Zero,
   acceleration |-> Vector2Zero, forces |-> <<>>, mass |-> 0, fixed |-> FALSE]

force_count(mass) == Len(mass.forces)

ERR_FORCES == "ERROR: Cannot append any more forces to mass"
ERR_MASSES == "ERROR: Cannot add more masses to the system"
ERR_SPRINGS == "ERROR: Cannot add more springs to the system"
ERR_FIRST == "ERROR: Index to first mass out of range"
ERR_SECOND == "ERROR: Index to second mass out of range"

\* A world w is [masses, springs, out]: the System and what printf has written.
mass_count(w) == Len(w.masses)
spring_count(w) == Len(w.springs)

printf(w, text) == [w EXCEPT !.out = Append(@, text)]

\* mass_force_append with the capacity checked by > in place of >=
mass_force_append_off_by_one(w, p, force) ==
  IF force_count(w.masses[p + 1]) > FORCES_CAPACITY
  THEN printf(w, ERR_FORCES)
  ELSE [w EXCEPT !.masses[p + 1].forces = Append(@, force)]

mass_force_append(w, p, force) ==
  IF force_count(w.masses[p + 1]) >= FORCES_CAPACITY
  THEN printf(w, ERR_FORCES)
  ELSE [w EXCEPT !.masses[p + 1].forces = Append(@, force)]

\* mass_reset_forces that leaves the force count as it is
mass_reset_forces_kept(w, p) == w

mass_reset_forces(w, p) == [w EXCEPT !.masses[p + 1].forces = <<>>]

RECURSIVE mass_update_loop(_, _, _)
mass_update_loop(mass, acceleration, i) ==
  IF i < force_count(mass)
  THEN LET acceleration_from_force ==
             Vector2Scale(mass.forces[i + 1], FDiv(Q, mass.mass))
       IN  mass_update_loop(mass,
                            Vector2Add(acceleration, acceleration_from_force),
                            i + 1)
  ELSE acceleration

\* mass_update moving the mass by the velocity it had before the call
mass_update_old_velocity(w, p, dt) ==
  LET mass == w.masses[p + 1]
  IN  IF mass.fixed
      THEN w
      ELSE LET acceleration ==
                 mass_update_loop(mass, GRAVITATIONAL_ACCELERATION, 0)
               velocity ==
                 Vector2Add(mass.velocity, Vector2Scale(acceleration, dt))
               position ==
                 Vector2Add(mass.position, Vector2Scale(mass.velocity, dt))
           IN  [w EXCEPT !.masses[p + 1].acceleration = acceleration,
                         !.masses[p + 1].velocity = velocity,
                         !.masses[p + 1].position = position]

\* mass_update without the early return for a fixed mass
mass_update_unfixed(w, p, dt) ==
  LET mass == w.masses[p + 1]
      acceleration == mass_update_loop(mass, GRAVITATIONAL_ACCELERATION, 0)
      velocity == Vector2Add(mass.velocity, Vector2Scale(acceleration, dt))
      position == Vector2Add(mass.position, Vector2Scale(velocity, dt))
  IN  [w EXCEPT !.masses[p + 1].acceleration = acceleration,
                !.masses[p + 1].velocity = velocity,
                !.masses[p + 1].position = position]

mass_update(w, p, dt) ==
  LET mass == w.masses[p + 1]
  IN  IF mass.fixed
      THEN w
      ELSE LET acceleration ==
                 mass_update_loop(mass, GRAVITATIONAL_ACCELERATION, 0)
               velocity ==
                 Vector2Add(mass.velocity, Vector2Scale(acceleration, dt))
               position ==
                 Vector2Add(mass.position, Vector2Scale(velocity, dt))
           IN  [w EXCEPT !.masses[p + 1].acceleration = acceleration,
                         !.masses[p + 1].velocity = velocity,
                         !.masses[p + 1].position = position]

\* ---------------------------------------------------------------- Spring
\* spring_update pushing both endpoints the same way
spring_update_same_sign(w, spring) ==
  LET first == w.masses[spring.first + 1]
      second == w.masses[spring.second + 1]
      span == Vector2Subtract(second.position, first.position)
      force_direction == Vector2Normalize(span)
      displacement == Fl(spring.length - Vector2Length(span))
      w1 == mass_force_append(w, spring.first,
              Vector2Scale(force_direction,
                           FMul(spring.strength, -displacement)))
      w2 == mass_force_append(w1, spring.second,
              Vector2Scale(force_direction,
                           FMul(spring.strength, -displacement)))
      displacement_rate_first ==
        Vector2DotProduct(first.velocity, force_direction)
      displacement_rate_second ==
        -Vector2DotProduct(second.velocity, force_direction)
      displacement_rate == displacement_rate_first + displacement_rate_second
      w3 == mass_force_append(w2, spring.first,
              Vector2Scale(force_direction,
                           FMul(spring.dampening, -displacement_rate)))
  IN  mass_force_append(w3, spring.second,
        Vector2Scale(force_direction,
                     FMul(spring.dampening, displacement_rate)))

spring_update(w, spring) ==
  LET first == w.masses[spring.first + 1]
      second == w.masses[spring.second + 1]
      span == Vector2Subtract(second.position, first.position)
      force_direction == Vector2Normalize(span)
      displacement == Fl(spring.length - Vector2Length(span))
      w1 == mass_force_append(w, spring.first,
              Vector2Scale(force_direction,
                           FMul(spring.strength, -displacement)))
      w2 == mass_force_append(w1, spring.second,
              Vector2Scale(force_direction,
                           FMul(spring.strength, displacement)))
      displacement_rate_first ==
        Vector2DotProduct(first.velocity, force_direction)
      displacement_rate_second ==
        -Vector2DotProduct(second.velocity, force_direction)
      displacement_rate == displacement_rate_first + displacement_rate_second
      w3 == mass_force_append(w2, spring.first,
              Vector2Scale(force_direction,
                           FMul(spring.dampening, -displacement_rate)))
  IN  mass_force_append(w3, spring.second,
        Vector2Scale(force_direction,
                     FMul(spring.dampening, displacement_rate)))

\* ---------------------------------------------------------------- System
\* System system = {0}
EmptyWorld == [masses |-> <<>>, springs |-> <<>>, out |-> <<>>]

\* system_add_mass with the bound checked by > in place of >=
system_add_mass_off_by_one(w, mass) ==
  IF mass_count(w) > SYSTEM_CAPACITY
  THEN printf(w, ERR_MASSES)
  ELSE [w EXCEPT !.masses = Append(@, mass)]

system_add_mass(w, mass) ==
  IF mass_count(w) >= SYSTEM_CAPACITY
  THEN printf(w, ERR_MASSES)
  ELSE [w EXCEPT !.masses = Append(@, mass)]

\* system_add_spring without the range check of the second index
system_add_spring_unchecked_second(w, spring, m1, m2) ==
  IF spring_count(w) >= SYSTEM_CAPACITY
  THEN printf(w, ERR_SPRINGS)
  ELSE IF mass_count(w) <= m1
  THEN printf(w, ERR_FIRST)
  ELSE [w EXCEPT !.springs =
          Append(@, [spring EXCEPT !.first = m1, !.second = m2])]

\* system_add_spring binding the endpoints the wrong way round
system_add_spring_swapped(w, spring, m1, m2) ==
  IF spring_count(w) >= SYSTEM_CAPACITY
  THEN printf(w, ERR_SPRINGS)
  ELSE IF mass_count(w) <= m1
  THEN printf(w, ERR_FIRST)
  ELSE IF mass_count(w) <= m2
  THEN printf(w, ERR_SECOND)
  ELSE [w EXCEPT !.springs =
          Append(@, [spring EXCEPT !.first = m2, !.second = m1])]

system_add_spring(w, spring, m1, m2) ==
  IF spring_count(w) >= SYSTEM_CAPACITY
  THEN printf(w, ERR_SPRINGS)
  ELSE IF mass_count(w) <= m1
  THEN printf(w, ERR_FIRST)
  ELSE IF mass_count(w) <= m2
  THEN printf(w, ERR_SECOND)
  ELSE [w EXCEPT !.springs =
          Append(@, [spring EXCEPT !.first = m1, !.second = m2])]

\* system_spring_update stopping one spring short
RECURSIVE system_spring_update_short(_, _)
system_spring_update_short(w, i) ==
  IF i < spring_count(w) - 1
  THEN system_spring_update_short(spring_update(w, w.springs[i + 1]), i + 1)
  ELSE w

RECURSIVE system_spring_update_from(_, _)
system_spring_update_from(w, i) ==
  IF i < spring_count(w)
  THEN system_spring_update_from(spring_update(w, w.springs[i + 1]), i + 1)
  ELSE w

system_spring_update(w) == system_spring_update_from(w, 0)

RECURSIVE system_mass_update_from(_, _, _)
system_mass_update_from(w, dt, i) ==
  IF i < mass_count(w)
  THEN system_mass_update_from(mass_update(w, i, dt), dt, i + 1)
  ELSE w

system_mass_update(w, dt) == system_mass_update_from(w, dt, 0)

RECURSIVE system_mass_reset_forces_from(_, _)
system_mass_reset_forces_from(w, i) ==
  IF i < mass_count(w)
  THEN system_mass_reset_forces_from(mass_reset_forces(w, i), i + 1)
  ELSE w

system_mass_reset_forces(w) == system_mass_reset_forces_from(w, 0)

RECURSIVE system_mass_force_append_from(_, _, _)
system_mass_force_append_from(w, force, i) ==
  IF i < mass_count(w)
  THEN system_mass_force_append_from(mass_force_append(w, i, force), force, i + 1)
  ELSE w

\* system_mass_force_append going over the masses twice
system_mass_force_append_twice(w, force) ==
  system_mass_force_append_from(system_mass_force_append_from(w, force, 0), force, 0)

system_mass_force_append(w, force) == system_mass_force_append_from(w, force, 0)

\* ------------------------------------------------------ system_init_grid
\* A grid's parameters: [rows, cols, origin, cell_size, mass, spring_strength,
\* spring_dampening].  The nested loops over r and c visit the cells in the
\* order n = r * cols + c, n = 0 .. rows * cols - 1.
grid_mass(g, r, c) ==
  [ZeroMass EXCEPT
     !.position = Vector2Add(g.origin, Vector2Scale(<<c * Q, r * Q>>, g.cell_size)),
     !.mass = g.mass,
     !.fixed = (r = 0)]

\* Always true.  TLC evaluates an operator's arguments only when they are used:
\* asking for the world of this iteration keeps the evaluation of a loop from
\* nesting every earlier iteration inside the last one.
Evaluated(w) == Len(w.masses) >= 0

RECURSIVE init_grid_masses(_, _, _)
init_grid_masses(w, g, n) ==
  IF Evaluated(w) /\ n < g.rows * g.cols
  THEN init_grid_masses(system_add_mass(w, grid_mass(g, n \div g.cols, n % g.cols)),
                        g, n + 1)
  ELSE w

grid_spring(g) ==
  [first |-> 0, second |-> 0, length |-> g.cell_size,
   strength |-> g.spring_strength, dampening |-> g.spring_dampening]

\* init_grid_cell_springs without the test for the last column
init_grid_cell_springs_wrap(w, g, r, c) ==
  LET m0 == r * g.cols + c
      m1 == r * g.cols + c + 1
      m2 == (r + 1) * g.cols + c
      wh == IF m1 < g.rows * g.cols
            THEN system_add_spring(w, grid_spring(g), m0, m1)
            ELSE w
  IN  IF r /= (g.rows - 1) /\ m2 < g.rows * g.cols
      THEN system_add_spring(wh, grid_spring(g), m0, m2)
      ELSE wh

init_grid_cell_springs(w, g, r, c) ==
  LET m0 == r * g.cols + c
      m1 == r * g.cols + c + 1
      m2 == (r + 1) * g.cols + c
      wh == IF c /= (g.cols - 1) /\ m1 < g.rows * g.cols
            THEN system_add_spring(w, grid_spring(g), m0, m1)
            ELSE w
  IN  IF r /= (g.rows - 1) /\ m2 < g.rows * g.cols
      THEN system_add_spring(wh, grid_spring(g), m0, m2)
      ELSE wh

RECURSIVE init_grid_springs(_, _, _)
init_grid_springs(w, g, n) ==
  IF Evaluated(w) /\ n < g.rows * g.cols
  THEN init_grid_springs(init_grid_cell_springs(w, g, n \div g.cols, n % g.cols),
                         g, n + 1)
  ELSE w

\* system_init_grid without the two counts set to 0
system_init_grid_kept(w, g) ==
  init_grid_springs(init_grid_masses(w, g, 0), g, 0)

system_init_grid(w, g) ==
  LET cleared == [w EXCEPT !.masses = <<>>, !.springs = <<>>]
  IN  init_grid_springs(init_grid_masses(cleared, g, 0), g, 0)

DefaultGrid(rows, cols) ==
  [rows |-> rows, cols |-> cols,
   origin |-> <<DEFAULT_GRID_ORIGIN_XY * Q, DEFAULT_GRID_ORIGIN_XY * Q>>,
   cell_size |-> DEFAULT_GRID_SIZE * Q,
   mass |-> DEFAULT_GRID_MASS * Q,
   spring_strength |-> DEFAULT_GRID_STRENGTH * Q,
   spring_dampening |-> DEFAULT_GRID_DAMPENING * Q]

INIT_DEFAULT_GRID(w) ==
  system_init_grid(w, DefaultGrid(DEFAULT_GRID_ROWS, DEFAULT_GRID_COLS))

\* ----------------------------------------------------------------- state
VARIABLES
  system,   \* [masses, springs]: the System
  out,      \* what the last call printed
  last,     \* the last call: [op, args]
  pre,      \* the System before the last call
  ops,      \* calls (frames, in main) still to be made
  pc,       \* "api": calls in any order; else the place in main()
  running,  \* main's running
  wind_on   \* main's wind_on

vars == <<system, out, last, pre, ops, pc, running, wind_on>>

World == [masses |-> system.masses, springs |-> system.springs, out |-> <<>>]

SystemOf(w) == [masses |-> w.masses, springs |-> w.springs]

\* the call `op(args)` takes World to w
Call(op, args, w) ==
  /\ system' = SystemOf(w)
  /\ out' = w.out
  /\ last' = [op |-> op, args |-> args]
  /\ pre' = system

\* a call made from outside main's loop
Api(op, args, w) ==
  /\ pc = "api"
  /\ ops > 0
  /\ ops' = ops - 1
  /\ Call(op, args, w)
  /\ UNCHANGED <<pc, running, wind_on>>

\* ---------------------------------------------------------------- inputs
MassInputs ==
  { [ZeroMass EXCEPT !.position = p, !.mass = Q, !.fixed = f] :
      p \in {<<0, 0>>, <<3 * Q, 4 * Q>>}, f \in BOOLEAN }

SpringInputs ==
  { [first |-> 0, second |-> 0, length |-> 4 * Q, strength |-> 10 * Q,
     dampening |-> Q] }

WIND == <<WIND_STRENGTH * Q, 0>>

ForceInputs == { WIND, <<-3 * Q, 5 * Q>> }

DtInputs == { 0, 1, -1 }

\* GetFrameTime(), in units of 1/Q second
FrameTimeInputs == { 1, 2 }

\* ----------------------------------------------------------- API actions
AddMass(mass) == Api("addMass", <<mass>>, system_add_mass(World, mass))

AddSpring(spring, m1, m2) ==
  Api("addSpring", <<spring, m1, m2>>, system_add_spring(World, spring, m1, m2))

BuildGrid(rows, cols) ==
  Api("buildGrid", <<rows, cols>>, system_init_grid(World, DefaultGrid(rows, cols)))

ApplyForce(p, force) ==
  /\ p < mass_count(World)
  /\ Api("applyForce", <<p, force>>, mass_force_append(World, p, force))

ApplyUniformForce(force) ==
  Api("applyUniformForce", <<force>>, system_mass_force_append(World, force))

StepSprings == Api("stepSprings", <<>>, system_spring_update(World))

StepMasses(dt) == Api("stepMasses", <<dt>>, system_mass_update(World, dt))

ResetForces == Api("resetForces", <<>>, system_mass_reset_forces(World))

DoAddMass == \E mass \in MassInputs : AddMass(mass)
DoAddSpring ==
  \E spring \in SpringInputs, m1, m2 \in 0..MaxIndex : AddSpring(spring, m1, m2)
DoBuildGrid == \E nr, nc \in 0..MaxDim : BuildGrid(nr, nc)
DoApplyForce ==
  \E p \in 0..MaxIndex, force \in ForceInputs : ApplyForce(p, force)
DoApplyUniformForce == \E force \in ForceInputs : ApplyUniformForce(force)
DoStepMasses == \E dt \in DtInputs : StepMasses(dt)

NoCall == [op |-> "init", args |-> <<>>]

\* System system = {0}; INIT_DEFAULT_GRID(&system);
DefaultGridSystem == SystemOf(INIT_DEFAULT_GRID(EmptyWorld))

\* System system = {0}, and calls in any order
Init ==
  /\ system = SystemOf(EmptyWorld)
  /\ out = <<>>
  /\ last = NoCall
  /\ pre = SystemOf(EmptyWorld)
  /\ ops = MaxOps
  /\ pc = "api"
  /\ running = FALSE
  /\ wind_on = FALSE

Next ==
  \/ DoAddMass
  \/ DoAddSpring
  \/ DoBuildGrid
  \/ DoApplyForce
  \/ DoApplyUniformForce
  \/ StepSprings
  \/ DoStepMasses
  \/ ResetForces

Spec == Init /\ [][Next]_vars

\* System system = {0}; INIT_DEFAULT_GRID(&system), and the simulation calls in
\* any order
StepInit ==
  /\ system = DefaultGridSystem
  /\ out = <<>>
  /\ last = NoCall
  /\ pre = SystemOf(EmptyWorld)
  /\ ops = MaxSteps
  /\ pc = "api"
  /\ running = FALSE
  /\ wind_on = FALSE

StepNext ==
  \/ DoApplyForce
  \/ DoApplyUniformForce
  \/ StepSprings
  \/ DoStepMasses
  \/ ResetForces

StepSpec == StepInit /\ [][StepNext]_vars

\* A fixed Mass m1 = {0} and a free mass m2 of mass 1, 2 or 10 hung from it by
\* a spring, at rest or moving, and the simulation calls in any order
IntegrateMasses ==
  { [ZeroMass EXCEPT !.position = <<3 * Q, 4 * Q>>, !.velocity = v, !.mass = m] :
      v \in { Vector2Zero, <<Q, -2 * Q>> }, m \in { Q, 2 * Q, 10 * Q } }

IntegrateInit ==
  /\ \E m2 \in IntegrateMasses, spring \in SpringInputs :
       system = SystemOf(
         system_add_spring(
           system_add_mass(
             system_add_mass(EmptyWorld, [ZeroMass EXCEPT !.fixed = TRUE]), m2),
           spring, 0, 1))
  /\ out = <<>>
  /\ last = NoCall
  /\ pre = SystemOf(EmptyWorld)
  /\ ops = MaxSteps
  /\ pc = "api"
  /\ running = FALSE
  /\ wind_on = FALSE

IntegrateSpec == IntegrateInit /\ [][StepNext]_vars

\* ------------------------------------------------------------------ main
\* One frame up to the simulation: the keys, the draw, `if (!running) continue`.
Frame(space, period, enter) ==
  /\ pc = "loop"
  /\ ops > 0
  /\ ops' = ops - 1
  /\ running' = IF space THEN ~running ELSE running
  /\ wind_on' = IF period THEN ~wind_on ELSE wind_on
  /\ IF enter
     THEN Call("buildGrid", <<DEFAULT_GRID_ROWS, DEFAULT_GRID_COLS>>,
               INIT_DEFAULT_GRID(World))
     ELSE UNCHANGED <<system, out, last, pre>>
  /\ pc' = IF running' THEN "springs" ELSE "loop"

MainStepSprings ==
  /\ pc = "springs"
  /\ Call("stepSprings", <<>>, system_spring_update(World))
  /\ pc' = "masses"
  /\ UNCHANGED <<ops, running, wind_on>>

MainStepMasses(frame_time) ==
  /\ pc = "masses"
  /\ LET dt == FMul(TIME_SCALE * Q, frame_time)
     IN  Call("stepMasses", <<dt>>, system_mass_update(World, dt))
  /\ pc' = "reset"
  /\ UNCHANGED <<ops, running, wind_on>>

MainResetForces ==
  /\ pc = "reset"
  /\ Call("resetForces", <<>>, system_mass_reset_forces(World))
  /\ pc' = "wind"
  /\ UNCHANGED <<ops, running, wind_on>>

MainWind ==
  /\ pc = "wind"
  /\ IF wind_on
     THEN Call("applyUniformForce", <<WIND>>, system_mass_force_append(World, WIND))
     ELSE UNCHANGED <<system, out, last, pre>>
  /\ pc' = "loop"
  /\ UNCHANGED <<ops, running, wind_on>>

\* WindowShouldClose()
MainClose ==
  /\ pc = "loop"
  /\ pc' = "closed"
  /\ UNCHANGED <<system, out, last, pre, ops, running, wind_on>>

DoFrame == \E space, period, enter \in BOOLEAN : Frame(space, period, enter)
DoMainStepMasses == \E frame_time \in FrameTimeInputs : MainStepMasses(frame_time)

MainInit ==
  /\ system = DefaultGridSystem
  /\ out = <<>>
  /\ last = NoCall
  /\ pre = SystemOf(EmptyWorld)
  /\ ops = MaxFrames
  /\ pc = "loop"
  /\ running = FALSE
  /\ wind_on = FALSE

MainNext ==
  \/ DoFrame
  \/ MainStepSprings
  \/ DoMainStepMasses
  \/ MainResetForces
  \/ MainWind
  \/ MainClose

MainSpec == MainInit /\ [][MainNext]_vars

\* ------------------------------------------------- claims about topology
SpringPairs(sys) ==
  { <<sys.springs[k].first, sys.springs[k].second>> : k \in 1..Len(sys.springs) }

\* C1: after any sequence of calls the mass count and the spring count are at
\* most the capacity, and both endpoints of every stored spring are indices
\* below the mass count.
C1_CountsAndEndpointsInRange ==
  /\ Len(system.masses) <= SYSTEM_CAPACITY
  /\ Len(system.springs) <= SYSTEM_CAPACITY
  /\ \A k \in 1..Len(system.springs) :
       /\ system.springs[k].first \in 0..(Len(system.masses) - 1)
       /\ system.springs[k].second \in 0..(Len(system.masses) - 1)

\* C1's case: a grid larger than the capacity was asked for and both
\* collections stopped at the capacity.
C1_Witness ==
  /\ last.op = "buildGrid"
  /\ last.args[1] * last.args[2] > SYSTEM_CAPACITY
  /\ Len(system.masses) = SYSTEM_CAPACITY
  /\ Len(system.springs) = SYSTEM_CAPACITY
  /\ ERR_MASSES \in { out[k] : k \in 1..Len(out) }

\* C2: addMass at capacity reports an error and leaves the masses and their
\* count as they were; below capacity the mass is stored at index = old count,
\* the earlier masses stay, and the count grows by exactly one.
C2_AddMass ==
  last.op = "addMass" =>
    IF Len(pre.masses) >= SYSTEM_CAPACITY
    THEN /\ out = <<ERR_MASSES>>
         /\ system.masses = pre.masses
    ELSE /\ out = <<>>
         /\ Len(system.masses) = Len(pre.masses) + 1
         /\ system.masses[Len(pre.masses) + 1] = last.args[1]
         /\ \A k \in 1..Len(pre.masses) : system.masses[k] = pre.masses[k]

\* C2's case: addMass was called on a full mass collection.
C2_Witness ==
  /\ last.op = "addMass"
  /\ Len(pre.masses) = SYSTEM_CAPACITY
  /\ out = <<ERR_MASSES>>

\* C3: addSpring(spring, i, j) reports an error and changes nothing when i or
\* j is not below the mass count or the spring collection is full; otherwise it
\* appends exactly one spring, from the mass at index i to the mass at index j,
\* and changes nothing else.
C3_AddSpring ==
  last.op = "addSpring" =>
    LET spring == last.args[1]
        i == last.args[2]
        j == last.args[3]
    IN  IF \/ i >= Len(pre.masses)
           \/ j >= Len(pre.masses)
           \/ Len(pre.springs) >= SYSTEM_CAPACITY
        THEN /\ Len(out) = 1
             /\ system = pre
        ELSE /\ out = <<>>
             /\ system.masses = pre.masses
             /\ Len(system.springs) = Len(pre.springs) + 1
             /\ \A k \in 1..Len(pre.springs) : system.springs[k] = pre.springs[k]
             /\ system.springs[Len(pre.springs) + 1].first = i
             /\ system.springs[Len(pre.springs) + 1].second = j
             /\ system.springs[Len(pre.springs) + 1].length = spring.length
             /\ system.springs[Len(pre.springs) + 1].strength = spring.strength
             /\ system.springs[Len(pre.springs) + 1].dampening = spring.dampening

\* C3's case: addSpring was refused for its second index alone, on a System
\* that holds masses and has room for springs.
C3_Witness ==
  /\ last.op = "addSpring"
  /\ last.args[2] < Len(pre.masses)
  /\ last.args[3] >= Len(pre.masses)
  /\ Len(pre.springs) < SYSTEM_CAPACITY
  /\ out = <<ERR_SECOND>>
  /\ system = pre

\* The lattice of buildGrid(rows, cols): the mass of cell (row, col) is at index
\* row * cols + col, row 0 is fixed; one spring to the right neighbour except
\* at the last column, one to the neighbour below except at the last row.
GridRight(rows, cols) ==
  { <<r * cols + c, r * cols + c + 1>> : r \in 0..(rows - 1), c \in 0..(cols - 2) }

GridBelow(rows, cols) ==
  { <<r * cols + c, (r + 1) * cols + c>> : r \in 0..(rows - 2), c \in 0..(cols - 1) }

IsGrid(sys, rows, cols) ==
  LET g == DefaultGrid(rows, cols)
  IN  /\ Len(sys.masses) = rows * cols
      /\ \A r \in 0..(rows - 1), c \in 0..(cols - 1) :
           LET m == sys.masses[r * cols + c + 1]
           IN  /\ m.position = <<g.origin[1] + c * g.cell_size,
                                 g.origin[2] + r * g.cell_size>>
               /\ m.fixed = (r = 0)
      /\ SpringPairs(sys) = GridRight(rows, cols) \cup GridBelow(rows, cols)
      /\ Len(sys.springs) = Cardinality(GridRight(rows, cols) \cup GridBelow(rows, cols))

\* C4 as stated: whenever rows * cols masses fit in the capacity, buildGrid
\* leaves exactly the lattice's masses and springs.
C4_Original ==
  (last.op = "buildGrid" /\ last.args[1] * last.args[2] <= SYSTEM_CAPACITY)
    => IsGrid(system, last.args[1], last.args[2])

GridSpringCount(rows, cols) ==
  IF rows = 0 \/ cols = 0 THEN 0 ELSE rows * (cols - 1) + (rows - 1) * cols

\* C4, amended: whenever rows * cols masses fit in the capacity and the
\* rows*(cols-1) + (rows-1)*cols springs fit in it too, buildGrid leaves
\* exactly the lattice's masses and springs.
C4_GridWhenSpringsFit ==
  ( /\ last.op = "buildGrid"
    /\ last.args[1] * last.args[2] <= SYSTEM_CAPACITY
    /\ GridSpringCount(last.args[1], last.args[2]) <= SYSTEM_CAPACITY )
    => IsGrid(system, last.args[1], last.args[2])

\* C4's case: buildGrid(2, 2) gave 4 masses and the springs 0-1, 2-3, 0-2, 1-3.
C4_Witness ==
  /\ last.op = "buildGrid"
  /\ last.args = <<2, 2>>
  /\ Len(system.masses) = 4
  /\ Len(system.springs) = 4
  /\ SpringPairs(system) = { <<0, 1>>, <<2, 3>>, <<0, 2>>, <<1, 3>> }
  /\ system.masses[1].fixed /\ system.masses[2].fixed
  /\ ~system.masses[3].fixed /\ ~system.masses[4].fixed

\* C9: every stored spring connects two different masses.
C9_NoSelfSpring ==
  \A k \in 1..Len(system.springs) :
    system.springs[k].first /= system.springs[k].second

\* --------------------------------------------------- claims about forces
PreWorld == [masses |-> pre.masses, springs |-> pre.springs, out |-> <<>>]

\* the world of system_spring_update_from(w, i) when its loop reaches i = k
RECURSIVE SpringStepWorldFrom(_, _, _)
SpringStepWorldFrom(w, i, k) ==
  IF Evaluated(w) /\ i < k
  THEN SpringStepWorldFrom(spring_update(w, w.springs[i + 1]), i + 1, k)
  ELSE w

SpringStepWorld(w, k) == SpringStepWorldFrom(w, 0, k)

\* the forces the step from `before` to `after` has appended to mass p
Appended(before, after, p) ==
  SubSeq(after.masses[p + 1].forces,
         Len(before.masses[p + 1].forces) + 1,
         Len(after.masses[p + 1].forces))

RECURSIVE VectorSum(_)
VectorSum(forces) ==
  IF forces = <<>>
  THEN <<0, 0>>
  ELSE LET rest == VectorSum(Tail(forces))
       IN  <<Head(forces)[1] + rest[1], Head(forces)[2] + rest[2]>>

\* what one spring step appends to its two endpoints adds up to zero
ThirdLaw(w, spring) ==
  LET after == spring_update(w, spring)
      to_first == VectorSum(Appended(w, after, spring.first))
      to_second == VectorSum(Appended(w, after, spring.second))
  IN  <<to_first[1] + to_second[1], to_first[2] + to_second[2]>> = <<0, 0>>

\* the spring step reports no dropped force
NothingDropped(w, spring) == spring_update(w, spring).out = w.out

\* C5 as stated: in every spring step of a stepSprings call, whatever the
\* endpoint masses' force lists hold, the forces appended to the first endpoint
\* and the forces appended to the second endpoint add up to the zero vector.
C5_Original ==
  last.op = "stepSprings" =>
    \A k \in 1..Len(pre.springs) :
      ThirdLaw(SpringStepWorld(PreWorld, k - 1), pre.springs[k])

\* C5: in every spring step of a stepSprings call in which no force is dropped
\* for want of room in an endpoint's force list, the forces appended to the
\* first endpoint and the forces appended to the second endpoint add up to the
\* zero vector; and the spring steps taken one after the other make up the call.
C5_ThirdLawWhenNothingDropped ==
  last.op = "stepSprings" =>
    /\ SystemOf(SpringStepWorld(PreWorld, Len(pre.springs))) = system
    /\ \A k \in 1..Len(pre.springs) :
         LET w == SpringStepWorld(PreWorld, k - 1)
         IN  NothingDropped(w, pre.springs[k]) => ThirdLaw(w, pre.springs[k])

\* a stepSprings call in which a spring pushed its endpoints with a force that
\* is not zero, and dropped nothing
C5_Witness ==
  /\ last.op = "stepSprings"
  /\ \E k \in 1..Len(pre.springs) :
       LET w == SpringStepWorld(PreWorld, k - 1)
           after == spring_update(w, pre.springs[k])
       IN  /\ NothingDropped(w, pre.springs[k])
           /\ Len(Appended(w, after, pre.springs[k].first)) = 2
           /\ Len(Appended(w, after, pre.springs[k].second)) = 2
           /\ VectorSum(Appended(w, after, pre.springs[k].first)) /= <<0, 0>>

\* C6: a mass whose fixed flag is set keeps its flag, its position and its
\* velocity in every call of applyForce, applyUniformForce, stepSprings,
\* stepMasses and resetForces, so that after any sequence of them it is where the
\* grid put it, at rest.
C6_FixedMassKept ==
  /\ Len(system.masses) = Len(DefaultGridSystem.masses)
  /\ \A i \in 1..Len(system.masses) :
       LET placed == DefaultGridSystem.masses[i]
       IN  placed.fixed =>
             /\ system.masses[i].fixed
             /\ system.masses[i].position = placed.position
             /\ system.masses[i].velocity = placed.velocity
  /\ last.op /= "init" =>
       \A i \in 1..Len(pre.masses) :
         pre.masses[i].fixed =>
           /\ system.masses[i].fixed
           /\ system.masses[i].position = pre.masses[i].position
           /\ system.masses[i].velocity = pre.masses[i].velocity

\* a stepMasses call with dt not zero that moved a free mass while a fixed
\* mass held a force that is not zero
C6_Witness ==
  /\ last.op = "stepMasses"
  /\ last.args[1] /= 0
  /\ \E i \in 1..Len(pre.masses) :
       /\ pre.masses[i].fixed
       /\ \E j \in 1..Len(pre.masses[i].forces) : pre.masses[i].forces[j] /= <<0, 0>>
  /\ \E i \in 1..Len(pre.masses) :
       /\ ~pre.masses[i].fixed
       /\ system.masses[i].position /= pre.masses[i].position

\* what applyForce(force) makes of one mass, and whether it reports
ForceApplied(mass, force) ==
  IF Len(mass.forces) < FORCES_CAPACITY
  THEN [mass EXCEPT !.forces = Append(mass.forces, force)]
  ELSE mass

FullMasses(sys) ==
  { i \in 1..Len(sys.masses) : Len(sys.masses[i].forces) >= FORCES_CAPACITY }

\* C8: applyForce on a mass below capacity appends the force as the last one
\* and reports nothing; on a mass at capacity it reports the error once and
\* leaves the mass as it was; no other mass and no spring changes.
\* applyUniformForce does this to every mass, reporting once per full mass.
C8_ApplyForce ==
  /\ last.op = "applyForce" =>
       LET p == last.args[1]
           force == last.args[2]
       IN  /\ system =
                [pre EXCEPT !.masses[p + 1] = ForceApplied(pre.masses[p + 1], force)]
           /\ out = IF (p + 1) \in FullMasses(pre) THEN <<ERR_FORCES>> ELSE <<>>
           /\ (p + 1) \notin FullMasses(pre) =>
                /\ Len(system.masses[p + 1].forces) =
                     Len(pre.masses[p + 1].forces) + 1
                /\ system.masses[p + 1].forces[Len(system.masses[p + 1].forces)]
                     = force
  /\ last.op = "applyUniformForce" =>
       /\ system.springs = pre.springs
       /\ Len(system.masses) = Len(pre.masses)
       /\ \A i \in 1..Len(pre.masses) :
            system.masses[i] = ForceApplied(pre.masses[i], last.args[1])
       /\ out = [n \in 1..Cardinality(FullMasses(pre)) |-> ERR_FORCES]

\* an applyUniformForce call that met a full mass and a mass with room
C8_Witness ==
  /\ last.op = "applyUniformForce"
  /\ FullMasses(pre) /= {}
  /\ FullMasses(pre) /= 1..Len(pre.masses)
  /\ out /= <<>>
  /\ \E i \in 1..Len(pre.masses) :
       Len(system.masses[i].forces) = Len(pre.masses[i].forces) + 1

\* ------------------------------------------------ claims about main's loop
WindOnly(forces) == forces \in { <<>>, <<WIND>> }

\* the number of spring ends at the mass of C index p
SpringEnds(sys, p) ==
  Cardinality({ k \in 1..Len(sys.springs) : sys.springs[k].first = p })
    + Cardinality({ k \in 1..Len(sys.springs) : sys.springs[k].second = p })

\* C7: main's loop calls stepSprings, stepMasses, resetForces and then, with the
\* wind on, applyUniformForce(wind), in this order.  Before stepSprings a mass
\* holds no force or the one wind force of the tick before; stepMasses
\* integrates that and the two forces per spring end that this tick's
\* stepSprings appended, none dropped; right after resetForces every force list
\* is empty, so no force is integrated in two ticks.
C7_TickOrder ==
  /\ pc \in {"loop", "springs", "closed"} =>
       \A i \in 1..Len(system.masses) : WindOnly(system.masses[i].forces)
  /\ pc = "masses" =>
       /\ last.op = "stepSprings"
       /\ out = <<>>
       /\ \A i \in 1..Len(system.masses) :
            /\ WindOnly(pre.masses[i].forces)
            /\ SubSeq(system.masses[i].forces, 1, Len(pre.masses[i].forces))
                 = pre.masses[i].forces
            /\ Len(system.masses[i].forces)
                 = Len(pre.masses[i].forces) + 2 * SpringEnds(system, i - 1)
  /\ pc = "reset" =>
       /\ last.op = "stepMasses"
       /\ \A i \in 1..Len(system.masses) :
            system.masses[i].forces = pre.masses[i].forces
  /\ pc = "wind" =>
       /\ last.op = "resetForces"
       /\ \A i \in 1..Len(system.masses) : system.masses[i].forces = <<>>

\* a tick whose stepSprings found the wind force of the tick before and
\* appended a spring force that is not zero
C7_Witness ==
  /\ pc = "masses"
  /\ \E i \in 1..Len(system.masses) :
       /\ pre.masses[i].forces = <<WIND>>
       /\ \E j \in 2..Len(system.masses[i].forces) :
            system.masses[i].forces[j] /= <<0, 0>>

\* ------------------------------------------ claims about the springs' order
\* the orders tried: the rotations, the reversal and the swaps of neighbours
SpringOrders(n) ==
  { [k \in 1..n |-> ((k - 1 + r) % n) + 1] : r \in 0..(n - 1) }
    \cup { [k \in 1..n |-> n + 1 - k] }
    \cup { [k \in 1..n |-> IF k = a THEN a + 1 ELSE IF k = a + 1 THEN a ELSE k] :
             a \in 1..(n - 1) }

\* system_spring_update on sys with its springs stored in the given order
StepSpringsIn(sys, order) ==
  system_spring_update(
    [masses |-> sys.masses,
     springs |-> [k \in 1..Len(sys.springs) |-> sys.springs[order[k]]],
     out |-> <<>>])

\* a and b hold the same forces, each as many times
SameForces(a, b) ==
  /\ Len(a) = Len(b)
  /\ \A i \in 1..Len(a) :
       Cardinality({ j \in 1..Len(a) : a[j] = a[i] })
         = Cardinality({ j \in 1..Len(b) : b[j] = a[i] })

SameMotion(a, b) ==
  /\ a.acceleration = b.acceleration
  /\ a.velocity = b.velocity
  /\ a.position = b.position

C11_GridReplacesSystem ==
  last.op = "buildGrid" =>
    LET fresh == system_init_grid(EmptyWorld, DefaultGrid(last.args[1], last.args[2]))
    IN  /\ system = SystemOf(fresh)
        /\ out = fresh.out
        /\ Len(system.masses) <= last.args[1] * last.args[2]
        /\ \A i \in 1..Len(system.masses) :
             /\ system.masses[i].velocity = Vector2Zero
             /\ system.masses[i].forces = <<>>
             /\ system.masses[i].fixed = (i <= last.args[2])

\* a buildGrid call on a System of another size, with springs, in which a
\* tick had set a mass moving
C11_Witness ==
  /\ last.op = "buildGrid"
  /\ Len(system.masses) > 0
  /\ Len(system.springs) > 0
  /\ Len(pre.masses) /= Len(system.masses)
  /\ pre.springs /= <<>>
  /\ \E i \in 1..Len(pre.masses) : pre.masses[i].velocity /= Vector2Zero

\* ------------------------------------------------ claims about integration
\* force / mass, as one float division per component
QuotientByMass(force, m) == <<Fl(FDiv(force[1], m)), Fl(FDiv(force[2], m))>>

\* gravity plus force / mass for every force, added in the order of the list
RECURSIVE AccelerationFrom(_, _, _)
AccelerationFrom(forces, m, acceleration) ==
  IF forces = <<>>
  THEN acceleration
  ELSE AccelerationFrom(Tail(forces), m,
                        Vector2Add(acceleration, QuotientByMass(Head(forces), m)))

\* 1 / m is a number of the arithmetic, so that force * (1 / m) is force / m
ReciprocalExact(m) == m /= 0 /\ FDiv(Q, m) * m = Q * Q

\* the sum of component c of the forces, and of its magnitudes
RECURSIVE ComponentSum(_, _)
ComponentSum(forces, c) ==
  IF forces = <<>> THEN 0 ELSE Head(forces)[c] + ComponentSum(Tail(forces), c)

RECURSIVE MagnitudeSum(_, _)
MagnitudeSum(forces, c) ==
  IF forces = <<>> THEN 0 ELSE Abs(Head(forces)[c]) + MagnitudeSum(Tail(forces), c)

\* what the roundings of 1 / m, of each product and of each sum can add up to,
\* for a mass m >= 1: half a unit of 1 / m on each force, half a unit on each
\* product, and half a unit in the last place of each product and each sum
RoundingSlack(forces, m, c) ==
  LET n == Len(forces)
      largest == Abs(GRAVITATIONAL_ACCELERATION[c])
                   + (MagnitudeSum(forces, c) * Q) \div m
                   + MagnitudeSum(forces, c) \div Q + 2 * n
  IN  MagnitudeSum(forces, c) \div (2 * Q) + n
        + n * ((2 * largest) \div (2 ^ MantissaBits) + 1)

\* acceleration is gravity plus the sum of force / mass, up to the roundings
NearExactAcceleration(acceleration, forces, m, c) ==
  Abs(acceleration[c] * m
        - (GRAVITATIONAL_ACCELERATION[c] * m + ComponentSum(forces, c) * Q))
    <= RoundingSlack(forces, m, c) * m

\* C12: stepMasses(dt) gives every mass that is not fixed the acceleration
\* gravity + the sum of force / mass over its forces (to the rounding of the
\* arithmetic, and to the last bit when 1 / mass is a number of the arithmetic),
\* then the velocity old velocity + acceleration * dt, then the position
\* old position + new velocity * dt, and leaves its forces, its mass and its
\* fixed flag, and the springs, as they were.
C12_Integrate ==
  last.op = "stepMasses" =>
    /\ system.springs = pre.springs
    /\ Len(system.masses) = Len(pre.masses)
    /\ \A i \in 1..Len(pre.masses) :
         LET old == pre.masses[i]
             new == system.masses[i]
             dt == last.args[1]
         IN  ~old.fixed =>
               /\ \A c \in 1..2 :
                    NearExactAcceleration(new.acceleration, old.forces, old.mass, c)
               /\ ReciprocalExact(old.mass) =>
                    new.acceleration =
                      AccelerationFrom(old.forces, old.mass,
                                       GRAVITATIONAL_ACCELERATION)
               /\ new.velocity =
                    Vector2Add(old.velocity, Vector2Scale(new.acceleration, dt))
               /\ new.position =
                    Vector2Add(old.position, Vector2Scale(new.velocity, dt))
               /\ new.forces = old.forces
               /\ new.mass = old.mass
               /\ new.fixed = old.fixed

\* a stepMasses call with dt not zero on a free mass of mass other than 1 that
\* held two forces or more, one of them not zero, and was moving
C12_Witness ==
  /\ last.op = "stepMasses"
  /\ last.args[1] /= 0
  /\ \E i \in 1..Len(pre.masses) :
       /\ ~pre.masses[i].fixed
       /\ pre.masses[i].mass /= Q
       /\ Len(pre.masses[i].forces) >= 2
       /\ \E j \in 1..Len(pre.masses[i].forces) : pre.masses[i].forces[j] /= <<0, 0>>
       /\ pre.masses[i].velocity /= Vector2Zero
       /\ system.masses[i].velocity /= pre.masses[i].velocity
       /\ system.masses[i].position /= pre.masses[i].position

\* ------------------------------------------- claims about the force count
\* C13: at every place of main's loop, with the wind toggled and the grid
\* rebuilt at any frame, a mass holds at most two forces for each of its spring
\* ends, of which it has at most four, and one wind force: nine at most, fewer
\* than the capacity, and no call has reported a dropped force.
C13_ForceCountInLoop ==
  /\ \A i \in 1..Len(system.masses) :
       /\ SpringEnds(system, i - 1) <= 4
       /\ force_count(system.masses[i]) <= 2 * SpringEnds(system, i - 1) + 1
       /\ force_count(system.masses[i]) <= 2 * 4 + 1
       /\ force_count(system.masses[i]) < FORCES_CAPACITY
  /\ \A n \in 1..Len(out) : out[n] /= ERR_FORCES

\* a tick in which a mass with four spring ends holds nine forces, the first
\* of them the wind
C13_Witness ==
  /\ pc \in {"masses", "reset"}
  /\ \E i \in 1..Len(system.masses) :
       /\ SpringEnds(system, i - 1) = 4
       /\ force_count(system.masses[i]) = 2 * 4 + 1
       /\ system.masses[i].forces[1] = WIND

====
